---------------------------- MODULE Spec2Model ----------------------------
(***************************************************************************)
(* The flash driver of src/src/flash/non_trustzone.rs, together with the   *)
(* flash controller it drives.  The driver is modelled statement by        *)
(* statement (pc is the position inside the running call); the controller  *)
(* is modelled by the register rules the driver's own comments quote from  *)
(* the reference manuals.  `family' is the cargo feature the crate was     *)
(* built with; it never changes.  g0 and g4 compile to the same statements *)
(* as l4 up to the names of the MER/STRT fields and are covered by "l4".   *)
(***************************************************************************)
EXTENDS Integers, Sequences, FiniteSets, TLC

\* ------------------------------------------------------------------ bounds
\* Longest data slice passed to write_page, and number of double words
\* tracked at the start of every tracked erase unit.
MaxData == 2
\* Largest number of error flags left asserted before the driver is created.
MaxStale == 1

\* --------------------------------------------------------------- constants
\* A 32-bit word as its four bytes, least significant first.
Word(b3, b2, b1, b0) == <<b0, b1, b2, b3>>

\* Mutant: the first key with two digits swapped.
FLASH_KEY1_Swapped == Word(\h45, \h67, \h01, \h32)

FLASH_KEY1 == Word(\h45, \h67, \h01, \h23)
FLASH_KEY2 == Word(\hCD, \hEF, \h89, \hAB)

Families == {"f3", "f4", "l4", "h7"}
Banks == {"B1", "B2"}

PAGE_SIZE == 2048
SECTOR_SIZE == 131072
FLASH_ORIGIN == 134217728
BANK2_ORIGIN == 135266304
\* Erase units: 8 sectors per bank on h7; pages 0..=511 elsewhere.
NUM_SECTORS == 8
NUM_PAGES == 512
\* f4 erases sectors, of which the largest parts have 24.
NUM_F4_SECTORS == 24
\* Width of the `as u8' cast applied to the unit index.
U8_RANGE == 256

\* A 64-bit word as its eight bytes, least significant first.
\* The values write_page is tried with: 0x1122334455667788 and 0.
ProgramWord == <<\h88, \h77, \h66, \h55, \h44, \h33, \h22, \h11>>
DataValues == { ProgramWord, <<0, 0, 0, 0, 0, 0, 0, 0>> }

\* `*dword as u32' and `(*dword >> 32) as u32'.
LowWord(d) == SubSeq(d, 1, 4)
HighWord(d) == SubSeq(d, 5, 8)

\* Unit indices the erases are tried with: two that fit the `as u8' cast, the
\* first that does not (in range on builds with 512 pages), and one out of
\* range on every build.
UnitArgs == {0, 1, U8_RANGE, NUM_PAGES}
\* Units whose first bytes are tracked, and the unit written and read.
TrackedIdx == {0, 1}
DataIdx == {1}
\* Unit indices the reads are tried with: the unit written, and one out of
\* range on every build.
ReadIdx == DataIdx \cup {NUM_PAGES}
\* What a byte read from beyond the end of flash may come back as.
StrayBytes == {0, 255}

SeqsUpTo(S, n) == UNION { [1..k -> S] : k \in 0..n }

\* ------------------------------------------------------ address translation
page_to_address(p) == FLASH_ORIGIN + p * PAGE_SIZE

\* Mutant: both banks starting at the origin of bank 1.
sector_to_address_OneOrigin(s, b) == FLASH_ORIGIN + s * SECTOR_SIZE

sector_to_address(s, b) ==
    (IF b = "B1" THEN FLASH_ORIGIN ELSE BANK2_ORIGIN) + s * SECTOR_SIZE

\* The translation a build of `fam' uses in write_page and the reads.
UnitBase(fam, u) ==
    IF fam = "h7" THEN sector_to_address(u, "B1") ELSE page_to_address(u)

\* ------------------------------------------------------------- error flags
\* The flags clear_error_flags tests, in the order it tests them.
ErrFlagSeq(fam) ==
    CASE fam = "f3" -> <<"wrprterr", "pgerr">>
      [] fam = "f4" -> <<"pgserr", "pgperr", "pgaerr", "wrperr", "operr">>
      [] fam = "h7" -> <<"dbeccerr", "sneccerr1", "rdserr", "rdperr", "operr",
                         "incerr", "strberr", "pgserr", "wrperr">>
      [] OTHER      -> <<"optverr", "rderr", "fasterr", "miserr", "pgserr",
                         "sizerr", "pgaerr", "wrperr", "progerr", "operr">>

Range(s) == { s[k] : k \in DOMAIN s }

\* Error flags of the status register: those the driver tests, and on f4
\* RDERR, whose test is commented out.
HwErrFlags(fam) ==
    Range(ErrFlagSeq(fam)) \cup (IF fam = "f4" THEN {"rderr"} ELSE {})

\* The flag a refused programming raises, and the one a refused erase raises.
ProgErrFlag(fam) ==
    CASE fam = "f3" -> "pgerr" [] fam = "l4" -> "progerr" [] OTHER -> "pgserr"

WrpErrFlag(fam) == IF fam = "f3" THEN "wrprterr" ELSE "wrperr"


\* ------------------------------------------------------------------- state
VARIABLES
    family,   \* the chip family the crate is built for
    cr,       \* FLASH_CR of each bank: lock, ee (PER/SER), sel (PNB/SNB, and
              \* FLASH_AR on f3), me (MER/MER1/BER), pg, strt (STRT/START)
    sr,       \* FLASH_SR of each bank: bsy (BSY, and QW on h7), flags (EOP
              \* and the error flags that read 1)
    keyst,    \* key logic of FLASH_KEYR: "idle", "k1" (KEY1 taken), "fault"
    wbuf,     \* words written to flash and not yet programmed
    mem,      \* flash contents, one byte per tracked address
    op,       \* the public method running, or the last one that ran
    pc,       \* position inside it; "idle" between calls
    page,     \* its page / sector argument
    bank,     \* its bank argument
    data,     \* write_page's slice
    offset,   \* the offset argument of read / read_to_buffer
    i,        \* write_page's loop index (double words written so far)
    snap,     \* clear_error_flags' `sr', the status snapshot it read
    cefi,     \* index in ErrFlagSeq of the flag clear_error_flags acts on next
    stalled,  \* the CPU is held on a FLASH_CR write issued while BSY is set
    ret,      \* the result of the call: "Ok", "Busy", "Failure"
    rval,     \* what the last read / read_to_buffer returned
    log,      \* register and flash accesses of the running call, in order
    rt        \* history: the unit last erased, and what was then written to it

vars == <<family, cr, sr, keyst, wbuf, mem, op, pc, page, bank, data, offset, i,
          snap, cefi, stalled, ret, rval, log, rt>>

hw == <<cr, sr, keyst, wbuf, mem>>
args == <<page, bank, data, offset>>
locals == <<i, snap, cefi>>

\* Tracked byte addresses of a build: the first 8 * MaxData bytes of units 0
\* and 1 of bank 1 and, on h7, of sector 0 of bank 2.
TrackedBases(fam) ==
    { UnitBase(fam, u) : u \in TrackedIdx }
        \cup (IF fam = "h7" THEN {sector_to_address(0, "B2")} ELSE {})

TrackedAddrs(fam) ==
    { b + k : b \in TrackedBases(fam), k \in 0..(8 * MaxData - 1) }

\* The bank and unit an address lies in.
BankOfAddr(fam, a) == IF fam = "h7" /\ a >= BANK2_ORIGIN THEN "B2" ELSE "B1"

UnitOfAddr(fam, a) ==
    IF fam = "h7"
    THEN (a - sector_to_address(0, BankOfAddr(fam, a))) \div SECTOR_SIZE
    ELSE (a - FLASH_ORIGIN) \div PAGE_SIZE

\* The register block `regs' of the running call.
Regs ==
    IF family = "h7" /\ op \in {"erase_sector", "erase_bank"} THEN bank ELSE "B1"

\* One access of the log.
Acc(k, reg, b, what) ==
    [k |-> k, reg |-> reg, bank |-> b, what |-> what,
     bsy |-> sr[b].bsy, lock |-> cr[b].lock]

ResetCr == [lock |-> TRUE, ee |-> FALSE, sel |-> 0, me |-> FALSE,
            pg |-> FALSE, strt |-> FALSE]

StaleSets(fam) ==
    { S \in SUBSET HwErrFlags(fam) : Cardinality(S) <= MaxStale }

NoHistory == [st |-> "none", page |-> 0, data |-> <<>>]

\* The driver is created on a controller in any state: either bank locked or
\* not, busy with an operation started earlier or not, with error flags left
\* over, and with key logic that may have latched a wrong key.  Flash holds a
\* program.  Only h7 builds have a second register block.
Init ==
    /\ family \in Families
    /\ \E l1 \in BOOLEAN, l2 \in BOOLEAN :
          /\ (family # "h7" => l2)
          /\ cr = [b \in Banks |->
                     [ResetCr EXCEPT !.lock = IF b = "B1" THEN l1 ELSE l2]]
    /\ \E b1 \in BOOLEAN, b2 \in BOOLEAN, e1 \in StaleSets(family) :
          /\ (family # "h7" => ~b2)
          /\ sr = [b \in Banks |->
                     [bsy |-> IF b = "B1" THEN b1 ELSE b2,
                      flags |-> IF b = "B1" THEN e1 ELSE {}]]
    /\ keyst \in {"idle", "fault"}
    /\ wbuf = <<>>
    /\ mem = [a \in TrackedAddrs(family) |-> ProgramWord[(a % 8) + 1]]
    /\ op = "new"
    /\ pc = "idle"
    /\ page = 0
    /\ bank = "B1"
    /\ data = <<>>
    /\ offset = 0
    /\ i = 0
    /\ snap = {}
    /\ cefi = 0
    /\ stalled = FALSE
    /\ ret = "Ok"
    /\ rval = <<>>
    /\ log = <<>>
    /\ rt = NoHistory


\* ---------------------------------------------------------- the controller
\* The two words the silicon expects in FLASH_KEYR: 0x45670123, 0xCDEF89AB.
KEYR_KEY1 == Word(\h45, \h67, \h01, \h23)
KEYR_KEY2 == Word(\hCD, \hEF, \h89, \hAB)

\* FLASH_KEYR: KEY1 then KEY2 clears LOCK; anything else latches the key
\* logic, which then refuses every key until reset.
KeyAfter(k, v) ==
    CASE k = "idle" /\ v = KEYR_KEY1 -> "k1"
      [] k = "k1" /\ v = KEYR_KEY2 -> "idle"
      [] OTHER -> "fault"

KeyUnlocks(k, v) == k = "k1" /\ v = KEYR_KEY2

\* FLASH_CR after a write of the fields `upd': setting LOCK always takes;
\* any other write is ignored while LOCK is set.
CrAfter(c, upd) ==
    IF "lock" \in DOMAIN upd THEN [c EXCEPT !.lock = TRUE]
    ELSE IF c.lock THEN c
    ELSE [f \in DOMAIN c |-> IF f \in DOMAIN upd THEN upd[f] ELSE c[f]]

\* A write of STRT that takes, with an erase selected, starts the erase.
Starts(c, upd) ==
    /\ "strt" \in DOMAIN upd
    /\ ~c.lock
    /\ (c.ee \/ c.me)

\* FLASH_SR (or FLASH_CCR on h7) after a write with the bits `ones' set: the
\* flags are cleared by writing 1, and untouched by writing 0.
SrAfter(s, ones) == [s EXCEPT !.flags = @ \ ones]

\* Bytes a..a+n-1 of flash, least address first (255 where not tracked: the
\* model keeps the rest of flash erased).
MemByte(m, a) == IF a \in DOMAIN m THEN m[a] ELSE 255
MemBytes(m, a, n) == [k \in 1..n |-> MemByte(m, a + k - 1)]

\* The first address past the flash of a build, and what reading n bytes at
\* address a can return: the bytes stored there, or anything when the
\* address lies beyond flash.
FlashEnd(fam) ==
    IF fam = "h7" THEN BANK2_ORIGIN + NUM_SECTORS * SECTOR_SIZE
    ELSE FLASH_ORIGIN + NUM_PAGES * PAGE_SIZE

ReadValues(m, fam, a, n) ==
    IF a + n <= FlashEnd(fam) THEN { MemBytes(m, a, n) }
    ELSE { [k \in 1..n |-> b] : b \in StrayBytes }

\* Flash with the bytes `bs' stored from address a on.
MemStore(m, a, bs) ==
    [x \in DOMAIN m |-> IF x >= a /\ x < a + Len(bs) THEN bs[x - a + 1] ELSE m[x]]

\* Flash with unit u of bank b erased, and with all of bank b erased.
MemEraseUnit(m, fam, b, u) ==
    [x \in DOMAIN m |->
        IF BankOfAddr(fam, x) = b /\ UnitOfAddr(fam, x) = u THEN 255 ELSE m[x]]

MemEraseBank(m, fam, b) ==
    [x \in DOMAIN m |-> IF BankOfAddr(fam, x) = b THEN 255 ELSE m[x]]

AllEqual(bs, v) == \A k \in DOMAIN bs : bs[k] = v

\* The double word the two buffered words make, and where it goes.
BufAddr == wbuf[1].addr
BufData == wbuf[1].word \o wbuf[2].word

\* Programming is allowed into an erased double word, or with data zero.
ProgAllowed(m, a, d) == AllEqual(MemBytes(m, a, 8), 255) \/ AllEqual(d, 0)

\* The controller completes the operation it is busy with.  An erase that
\* succeeds erases what FLASH_CR selects, a programming that is allowed
\* stores the buffered double word; both then raise EOP.  A programming
\* that is not allowed raises the sequence error instead.  An operation
\* started before the driver existed just ends.
HwFinish(b) ==
    /\ sr[b].bsy
    /\ IF cr[b].strt
       THEN /\ mem' = IF cr[b].me THEN MemEraseBank(mem, family, b)
                      ELSE MemEraseUnit(mem, family, b, cr[b].sel)
            /\ cr' = [cr EXCEPT ![b].strt = FALSE]
            /\ sr' = [sr EXCEPT ![b].bsy = FALSE, ![b].flags = @ \cup {"eop"}]
            /\ UNCHANGED wbuf
       ELSE IF Len(wbuf) = 2 /\ BankOfAddr(family, BufAddr) = b
       THEN /\ IF ProgAllowed(mem, BufAddr, BufData)
               THEN /\ mem' = MemStore(mem, BufAddr, BufData)
                    /\ sr' = [sr EXCEPT ![b].bsy = FALSE,
                                        ![b].flags = @ \cup {"eop"}]
               ELSE /\ mem' = mem
                    /\ sr' = [sr EXCEPT ![b].bsy = FALSE,
                                 ![b].flags = @ \cup {ProgErrFlag(family)}]
            /\ wbuf' = <<>>
            /\ UNCHANGED cr
       ELSE /\ sr' = [sr EXCEPT ![b].bsy = FALSE]
            /\ UNCHANGED <<cr, wbuf, mem>>
    /\ UNCHANGED <<family, rt, keyst, op, pc, args, locals, stalled, ret, rval,
                   log>>

\* The controller refuses the erase bank 1 is busy with (write protection,
\* which the model places in bank 1, where the program is): nothing is
\* erased, the write-protection error is raised and EOP is not.
HwRefuse ==
    /\ sr["B1"].bsy
    /\ cr["B1"].strt
    /\ cr' = [cr EXCEPT !["B1"].strt = FALSE]
    /\ sr' = [sr EXCEPT !["B1"].bsy = FALSE,
                        !["B1"].flags = @ \cup {WrpErrFlag(family)}]
    /\ UNCHANGED <<family, rt, keyst, wbuf, mem, op, pc, args, locals, stalled,
                   ret, rval, log>>

\* ------------------------------------------------------- driver: plumbing
\* A public method is entered: its log and result start afresh.
Begin(o, first, p, b, d) ==
    /\ pc = "idle"
    /\ op' = o
    /\ page' = p
    /\ bank' = b
    /\ data' = d
    /\ offset' = 0
    /\ pc' = first
    /\ i' = 0
    /\ snap' = {}
    /\ cefi' = 0
    /\ stalled' = FALSE
    /\ ret' = "Ok"
    /\ rval' = <<>>
    /\ log' = <<>>
    /\ UNCHANGED <<family, rt, hw>>

\* The bytes of a slice of 64-bit words, in address order.
RECURSIVE Flatten(_)
Flatten(d) == IF d = <<>> THEN <<>> ELSE Head(d) \o Flatten(Tail(d))

UnitErased(p) ==
    /\ p \in TrackedIdx
    /\ \A a \in DOMAIN mem :
          (BankOfAddr(family, a) = "B1" /\ UnitOfAddr(family, a) = p) => mem[a] = 255

\* The history when the running call returns: an erase that returned Ok and
\* left the unit erased starts it, a write_page to that unit that returned Ok
\* and left its data in flash continues it, lock() keeps it, all else ends it.
RtAfter ==
    CASE op \in {"erase_page", "erase_sector"} /\ bank = "B1" /\ ret = "Ok"
              /\ UnitErased(page) ->
            [st |-> "erased", page |-> page, data |-> <<>>]
      [] op = "write_page" /\ ret = "Ok" /\ rt.st = "erased" /\ rt.page = page
              /\ data # <<>>
              /\ MemBytes(mem, UnitBase(family, page), 8 * Len(data)) = Flatten(data) ->
            [st |-> "written", page |-> page, data |-> data]
      [] op = "lock" -> rt
      [] OTHER -> NoHistory

\* `regs.cr.modify(..)' on bank b, then on to `next'.  A FLASH_CR write
\* issued while BSY is set stalls the bus until BSY clears; the write takes
\* effect then.
CrModify(b, upd, next) ==
    /\ log' = IF stalled THEN log ELSE Append(log, Acc("m", "cr", b, upd))
    /\ IF sr[b].bsy
       THEN /\ ~stalled
            /\ stalled' = TRUE
            /\ UNCHANGED <<cr, sr, pc>>
       ELSE /\ stalled' = FALSE
            /\ cr' = [cr EXCEPT ![b] = CrAfter(@, upd)]
            /\ sr' = IF Starts(cr[b], upd)
                     THEN [sr EXCEPT ![b].bsy = TRUE] ELSE sr
            /\ pc' = next
    /\ rt' = IF next = "idle" /\ ~sr[b].bsy THEN RtAfter ELSE rt
    /\ UNCHANGED <<family, keyst, wbuf, mem, op, args, locals, ret, rval>>

\* Mutant: `self.unlock()' without the `?', the failure dropped.
AfterUnlock_IgnoreFailure(r) ==
    IF op = "unlock" THEN "idle"
    ELSE IF op = "erase_sector" THEN "cef_read"
    ELSE "bsy_check"

\* Where unlock()'s caller goes on: the `?' returns a failure at once;
\* erase_sector goes straight to clear_error_flags, the others read BSY.
AfterUnlock(r) ==
    IF op = "unlock" \/ r = "Failure" THEN "idle"
    ELSE IF op = "erase_sector" THEN "cef_read"
    ELSE "bsy_check"

\* ---------------------------------------------------------------- unlock
unlock == Begin("unlock", "unlock_check", 0, "B1", <<>>)

\* Mutant: unlock() without the early return, writing the keys every time.
unlock_check_NoEarlyReturn ==
    /\ pc = "unlock_check"
    /\ log' = Append(log, Acc("r", "cr", "B1", "lock"))
    /\ pc' = "unlock_key1"
    /\ UNCHANGED <<family, rt, hw, op, args, locals, stalled, ret, rval>>

\* if regs.cr.read().lock().bit_is_clear() { return Ok(()) }
unlock_check ==
    /\ pc = "unlock_check"
    /\ log' = Append(log, Acc("r", "cr", "B1", "lock"))
    /\ pc' = IF cr["B1"].lock THEN "unlock_key1" ELSE AfterUnlock("Ok")
    /\ UNCHANGED <<family, rt, hw, op, args, locals, stalled, ret, rval>>

KeyWrite(v, next) ==
    /\ log' = Append(log, Acc("w", "keyr", "B1", v))
    /\ keyst' = KeyAfter(keyst, v)
    /\ cr' = IF KeyUnlocks(keyst, v) THEN [cr EXCEPT !["B1"].lock = FALSE] ELSE cr
    /\ pc' = next
    /\ UNCHANGED <<family, rt, sr, wbuf, mem, op, args, locals, stalled, ret,
                   rval>>

unlock_key1 == pc = "unlock_key1" /\ KeyWrite(FLASH_KEY1, "unlock_key2")

unlock_key2 == pc = "unlock_key2" /\ KeyWrite(FLASH_KEY2, "unlock_verify")

\* Mutant: unlock() that does not read the lock bit back and returns Ok.
unlock_verify_AlwaysOk ==
    /\ pc = "unlock_verify"
    /\ log' = Append(log, Acc("r", "cr", "B1", "lock"))
    /\ ret' = "Ok"
    /\ pc' = AfterUnlock("Ok")
    /\ UNCHANGED <<family, rt, hw, op, args, locals, stalled, rval>>

\* if regs.cr.read().lock().bit_is_clear() { Ok(()) } else { Err(Failure) }
unlock_verify ==
    /\ pc = "unlock_verify"
    /\ log' = Append(log, Acc("r", "cr", "B1", "lock"))
    /\ LET r == IF cr["B1"].lock THEN "Failure" ELSE "Ok" IN
          /\ ret' = r
          /\ pc' = AfterUnlock(r)
    /\ UNCHANGED <<family, rt, hw, op, args, locals, stalled, rval>>

\* ------------------------------------------------------------------ lock
lock == Begin("lock", "lock_wait", 0, "B1", <<>>)

\* Mutant: lock() that reads BSY once and does not wait for it to clear.
lock_wait_NoWait ==
    /\ pc = "lock_wait"
    /\ log' = Append(log, Acc("r", "sr", "B1", "bsy"))
    /\ pc' = "lock_set"
    /\ UNCHANGED <<family, rt, hw, op, args, locals, stalled, ret, rval>>

\* while regs.sr.read().bsy().bit_is_set() {}
lock_wait ==
    /\ pc = "lock_wait"
    /\ ~sr["B1"].bsy
    /\ log' = Append(log, Acc("r", "sr", "B1", "bsy"))
    /\ pc' = "lock_set"
    /\ UNCHANGED <<family, rt, hw, op, args, locals, stalled, ret, rval>>

\* regs.cr.modify(|_, w| w.lock().set_bit())
lock_set == pc = "lock_set" /\ CrModify("B1", [lock |-> TRUE], "idle")


\* ------------------------------------------- busy check, clear_error_flags
\* Mutant: the busy check without its `return': Busy is noted and the
\* method carries on.
bsy_check_NoReturn ==
    /\ pc = "bsy_check"
    /\ log' = Append(log, Acc("r", "sr", Regs, "bsy"))
    /\ ret' = IF sr[Regs].bsy THEN "Busy" ELSE ret
    /\ pc' = "cef_read"
    /\ UNCHANGED <<family, rt, hw, op, args, locals, stalled, rval>>

\* let sr = regs.sr.read(); if sr.bsy().bit_is_set() { self.lock(); return Err(Busy) }
bsy_check ==
    /\ pc = "bsy_check"
    /\ log' = Append(log, Acc("r", "sr", Regs, "bsy"))
    /\ IF sr[Regs].bsy
       THEN ret' = "Busy" /\ pc' = "lock_wait"
       ELSE ret' = ret /\ pc' = "cef_read"
    /\ UNCHANGED <<family, rt, hw, op, args, locals, stalled, rval>>

\* Index of the first flag from position k on that the snapshot s holds; 0
\* when there is none.
NextCef(s, k) ==
    LET fs == ErrFlagSeq(family)
        hit == { j \in k..Len(fs) : fs[j] \in s }
    IN IF hit = {} THEN 0 ELSE CHOOSE j \in hit : \A h \in hit : j <= h

\* The statement after clear_error_flags(regs) in the running method.
AfterClear ==
    CASE op = "erase_page" -> "ep_select"
      [] op = "erase_sector" -> "es_select"
      [] op = "erase_bank" -> "eb_mer"
      [] OTHER -> "wp_pg"

\* Mutant: clear_error_flags that treats a flag it finds as fatal.
cef_read_Fatal ==
    /\ pc = "cef_read"
    /\ log' = Append(log, Acc("r", "sr", Regs, "all"))
    /\ snap' = sr[Regs].flags
    /\ cefi' = 0
    /\ IF NextCef(sr[Regs].flags, 1) = 0
       THEN ret' = ret /\ pc' = AfterClear
       ELSE ret' = "Failure" /\ pc' = "lock_wait"
    /\ UNCHANGED <<family, rt, hw, op, args, i, stalled, rval>>

\* let sr = regs.sr.read();
cef_read ==
    /\ pc = "cef_read"
    /\ log' = Append(log, Acc("r", "sr", Regs, "all"))
    /\ snap' = sr[Regs].flags
    /\ cefi' = NextCef(sr[Regs].flags, 1)
    /\ pc' = IF NextCef(sr[Regs].flags, 1) = 0 THEN AfterClear ELSE "cef_clear"
    /\ UNCHANGED <<family, rt, hw, op, args, i, stalled, ret, rval>>

\* The register a flag is cleared through, how, and the bits written as 1:
\* f3 and f4 modify FLASH_SR (the flags read come back as ones), the others
\* write FLASH_SR, h7 writes FLASH_CCR, each with the one bit.
CefAccess(b, f) ==
    CASE family \in {"f3", "f4"} ->
            Acc("m", "sr", b, sr[b].flags \cup {f})
      [] family = "h7" -> Acc("w", "ccr", b, {f})
      [] OTHER -> Acc("w", "sr", b, {f})

\* if sr.<flag>().bit_is_set() { <write the flag's clear bit> }
cef_clear ==
    /\ pc = "cef_clear"
    /\ LET a == CefAccess(Regs, ErrFlagSeq(family)[cefi]) IN
          /\ log' = Append(log, a)
          /\ sr' = [sr EXCEPT ![Regs] = SrAfter(@, a.what)]
    /\ cefi' = NextCef(snap, cefi + 1)
    /\ pc' = IF NextCef(snap, cefi + 1) = 0 THEN AfterClear ELSE "cef_clear"
    /\ UNCHANGED <<family, rt, cr, keyst, wbuf, mem, op, args, i, snap, stalled,
                   ret, rval>>

\* `regs.sr.modify(|_, w| w.eop().set_bit())': on h7 FLASH_SR is read-only
\* (flags are cleared through FLASH_CCR) and the write changes nothing.
EopAck(b, next) ==
    /\ LET a == Acc("m", "sr", b, sr[b].flags \cup {"eop"}) IN
          /\ log' = Append(log, a)
          /\ sr' = IF family = "h7" THEN sr
                   ELSE [sr EXCEPT ![b] = SrAfter(@, a.what)]
    /\ pc' = next
    /\ UNCHANGED <<family, rt, cr, keyst, wbuf, mem, op, args, locals, stalled,
                   ret, rval>>

\* `while regs.sr.read().<flag>().bit_is_set() {}': the read that ends the loop.
SpinUntilClear(b, what, next) ==
    /\ ~sr[b].bsy
    /\ log' = Append(log, Acc("r", "sr", b, what))
    /\ pc' = next
    /\ UNCHANGED <<family, rt, hw, op, args, locals, stalled, ret, rval>>

\* ------------------------------------------------------------ erase_page
erase_page(p) ==
    /\ family # "h7"
    /\ Begin("erase_page", "unlock_check", p, "B1", <<>>)

\* Mutant: the unit, the erase-enable bit and the start bit in one write.
ep_select_WithStart ==
    /\ pc = "ep_select"
    /\ CrModify("B1", [ee |-> TRUE, sel |-> page % U8_RANGE, strt |-> TRUE],
                "ep_wait")

\* Mutant: the range check of the commented-out `match page' in force: an
\* index beyond the last page returns PageOutOfRange.
ep_select_RangeChecked ==
    /\ pc = "ep_select"
    /\ IF page >= NUM_PAGES
       THEN /\ ret' = "PageOutOfRange"
            /\ pc' = "idle"
            /\ rt' = NoHistory
            /\ UNCHANGED <<family, hw, op, args, locals, stalled, rval, log>>
       ELSE IF family = "f3"
       THEN CrModify("B1", [ee |-> TRUE], "ep_ar")
       ELSE CrModify("B1", [ee |-> TRUE, sel |-> page % U8_RANGE], "ep_strt")

\* f3: PER alone; f4: SER and SNB; others: PNB and PER, the index cast `as u8'.
ep_select ==
    /\ pc = "ep_select"
    /\ IF family = "f3"
       THEN CrModify("B1", [ee |-> TRUE], "ep_ar")
       ELSE CrModify("B1", [ee |-> TRUE, sel |-> page % U8_RANGE], "ep_strt")

\* regs.ar.write(|w| unsafe { w.bits(page as u32) })
ep_ar ==
    /\ pc = "ep_ar"
    /\ log' = Append(log, Acc("w", "ar", "B1", page))
    /\ cr' = [cr EXCEPT !["B1"].sel = page]
    /\ pc' = "ep_strt"
    /\ UNCHANGED <<family, rt, sr, keyst, wbuf, mem, op, args, locals, stalled,
                   ret, rval>>

ep_strt == pc = "ep_strt" /\ CrModify("B1", [strt |-> TRUE], "ep_wait")

\* while regs.sr.read().bsy().bit_is_set() {}
ep_wait ==
    /\ pc = "ep_wait"
    /\ SpinUntilClear("B1", "bsy",
          IF family \in {"f3", "f4"} THEN "ep_eop_wait" ELSE "ep_clear")

\* while regs.sr.read().eop().bit_is_clear() {}
ep_eop_wait ==
    /\ pc = "ep_eop_wait"
    /\ "eop" \in sr["B1"].flags
    /\ log' = Append(log, Acc("r", "sr", "B1", "eop"))
    /\ pc' = "ep_eop_ack"
    /\ UNCHANGED <<family, rt, hw, op, args, locals, stalled, ret, rval>>

ep_eop_ack == pc = "ep_eop_ack" /\ EopAck("B1", "ep_clear")

\* regs.cr.modify(|_, w| w.per().clear_bit())  (ser on f4)
ep_clear == pc = "ep_clear" /\ CrModify("B1", [ee |-> FALSE], "lock_wait")

\* ---------------------------------------------------------- erase_sector
erase_sector(s, b) ==
    /\ family = "h7"
    /\ Begin("erase_sector", "unlock_check", s, b, <<>>)

es_select ==
    /\ pc = "es_select"
    /\ CrModify(bank, [ee |-> TRUE, sel |-> page % U8_RANGE], "es_strt")

es_strt == pc = "es_strt" /\ CrModify(bank, [strt |-> TRUE], "es_wait")

\* while regs.sr.read().qw().bit_is_set() {}
es_wait == pc = "es_wait" /\ SpinUntilClear(bank, "qw", "lock_wait")

\* ------------------------------------------------------------ erase_bank
erase_bank(b) == Begin("erase_bank", "unlock_check", 0, b, <<>>)

eb_mer == pc = "eb_mer" /\ CrModify(Regs, [me |-> TRUE], "eb_strt")

eb_strt ==
    /\ pc = "eb_strt"
    /\ CrModify(Regs, [strt |-> TRUE], IF family = "h7" THEN "eb_qw" ELSE "eb_wait")

eb_qw == pc = "eb_qw" /\ SpinUntilClear(Regs, "qw", "eb_wait")

eb_wait == pc = "eb_wait" /\ SpinUntilClear(Regs, "bsy", "eb_clear")

eb_clear == pc = "eb_clear" /\ CrModify(Regs, [me |-> FALSE], "lock_wait")


\* ------------------------------------------------------------ write_page
write_page(p, d) == Begin("write_page", "unlock_check", p, "B1", d)

\* Mutant: write_page that goes into its loop without setting PG.
wp_pg_NoSet ==
    /\ pc = "wp_pg"
    /\ CrModify("B1", [pg |-> FALSE], IF Len(data) = 0 THEN "wp_pg_clear" ELSE "wp_lo")

\* regs.cr.modify(|_, w| w.pg().set_bit()), then the `for', not entered for
\* an empty slice.
wp_pg ==
    /\ pc = "wp_pg"
    /\ CrModify("B1", [pg |-> TRUE], IF Len(data) = 0 THEN "wp_pg_clear" ELSE "wp_lo")

\* Mutant: `address' never advanced.
WriteAddress_NoAdvance == UnitBase(family, page)

\* `address' at the top of iteration i of the loop, as a byte address.
WriteAddress == UnitBase(family, page) + 8 * i

\* core::ptr::write_volatile(a, w): with PG set the controller buffers the
\* word, and is busy programming once it holds a double word; without PG the
\* write is refused with the sequence error (PGSERR and its namesakes).
FlashWrite(a, w, next) ==
    /\ log' = Append(log, Acc("w", "mem", BankOfAddr(family, a), [addr |-> a, word |-> w]))
    /\ IF cr[BankOfAddr(family, a)].pg
       THEN /\ wbuf' = Append(wbuf, [addr |-> a, word |-> w])
            /\ sr' = IF Len(wbuf) = 1
                     THEN [sr EXCEPT ![BankOfAddr(family, a)].bsy = TRUE]
                     ELSE sr
       ELSE /\ wbuf' = wbuf
            /\ sr' = [sr EXCEPT ![BankOfAddr(family, a)].flags =
                                     @ \cup {ProgErrFlag(family)}]
    /\ pc' = next
    /\ UNCHANGED <<family, rt, cr, keyst, mem, op, args, locals, stalled, ret,
                   rval>>

\* core::ptr::write_volatile(address, *dword as u32)
wp_lo ==
    /\ pc = "wp_lo"
    /\ FlashWrite(WriteAddress, LowWord(data[i + 1]), "wp_hi")

\* core::ptr::write_volatile(address.add(1), (*dword >> 32) as u32)
wp_hi ==
    /\ pc = "wp_hi"
    /\ FlashWrite(WriteAddress + 4, HighWord(data[i + 1]), "wp_wait")

\* Mutant: BSY read once after the pair, not waited for.
wp_wait_NoWait ==
    /\ pc = "wp_wait"
    /\ log' = Append(log, Acc("r", "sr", "B1", "bsy"))
    /\ pc' = "wp_eop"
    /\ UNCHANGED <<family, rt, hw, op, args, locals, stalled, ret, rval>>

\* while regs.sr.read().bsy().bit_is_set() {}
wp_wait == pc = "wp_wait" /\ SpinUntilClear("B1", "bsy", "wp_eop")

\* Where the loop goes after iteration i.
AfterPair == IF i + 1 < Len(data) THEN "wp_lo" ELSE "wp_pg_clear"

\* if regs.sr.read().eop().bit_is_set() { .. }, and `address.add(2)'
wp_eop ==
    /\ pc = "wp_eop"
    /\ log' = Append(log, Acc("r", "sr", "B1", "eop"))
    /\ IF "eop" \in sr["B1"].flags
       THEN pc' = "wp_eop_ack" /\ i' = i
       ELSE pc' = AfterPair /\ i' = i + 1
    /\ UNCHANGED <<family, rt, hw, op, args, snap, cefi, stalled, ret, rval>>

wp_eop_ack ==
    /\ pc = "wp_eop_ack"
    /\ LET a == Acc("m", "sr", "B1", sr["B1"].flags \cup {"eop"}) IN
          /\ log' = Append(log, a)
          /\ sr' = IF family = "h7" THEN sr
                   ELSE [sr EXCEPT !["B1"] = SrAfter(@, a.what)]
    /\ pc' = AfterPair
    /\ i' = i + 1
    /\ UNCHANGED <<family, rt, cr, keyst, wbuf, mem, op, args, snap, cefi,
                   stalled, ret, rval>>

\* regs.cr.modify(|_, w| w.pg().clear_bit())
wp_pg_clear == pc = "wp_pg_clear" /\ CrModify("B1", [pg |-> FALSE], "lock_wait")

\* ----------------------------------------------------------------- reads
\* Mutant: a read that goes through the lock gate and leaves FLASH_CR locked.
ReadCall_ThroughGate(o, p, off, a, v) ==
    /\ pc = "idle"
    /\ op' = o
    /\ page' = p
    /\ bank' = "B1"
    /\ data' = <<>>
    /\ offset' = off
    /\ ret' = "Ok"
    /\ rval' = v
    /\ log' = <<Acc("r", "mem", BankOfAddr(family, a), [addr |-> a, len |-> Len(v)]),
                Acc("m", "cr", "B1", [lock |-> TRUE])>>
    /\ cr' = [cr EXCEPT !["B1"].lock = TRUE]
    /\ UNCHANGED <<family, rt, sr, keyst, wbuf, mem, pc, locals, stalled>>

\* A method that only reads flash: it runs to its end in one step.
ReadCall(o, p, off, a, v) ==
    /\ pc = "idle"
    /\ op' = o
    /\ page' = p
    /\ bank' = "B1"
    /\ data' = <<>>
    /\ offset' = off
    /\ ret' = "Ok"
    /\ rval' = v
    /\ log' = <<Acc("r", "mem", BankOfAddr(family, a), [addr |-> a, len |-> Len(v)])>>
    /\ UNCHANGED <<family, rt, hw, pc, locals, stalled>>

\* core::ptr::read((page_to_address(page) as *const u64).offset(offset)):
\* the offset counts 64-bit words.
ReadAddress(p, off) == page_to_address(p) + 8 * off

read(p, off) ==
    /\ family # "h7"
    /\ \E v \in ReadValues(mem, family, ReadAddress(p, off), 8) :
          ReadCall("read", p, off, ReadAddress(p, off), v)

\* for val in buff { *val = core::ptr::read(addr.offset(offset)) }: every
\* element of the buffer is read from the same address, addr + offset.
BufferAddress(p, off) == UnitBase(family, p) + off

read_to_buffer(p, off, n) ==
    \E v \in ReadValues(mem, family, BufferAddress(p, off), 1) :
        ReadCall("read_to_buffer", p, off, BufferAddress(p, off),
                 [k \in 1..n |-> v[1]])

\* ------------------------------------------------------------------- next
Data == SeqsUpTo(DataValues, MaxData)
ReadOffsets == 0..(MaxData - 1)
BufferLens == { 8 * k : k \in 1..MaxData }

Next ==
    \/ unlock
    \/ unlock_check
    \/ unlock_key1
    \/ unlock_key2
    \/ unlock_verify
    \/ lock
    \/ lock_wait
    \/ lock_set
    \/ bsy_check
    \/ cef_read
    \/ cef_clear
    \/ \E p \in UnitArgs : erase_page(p)
    \/ ep_select
    \/ ep_ar
    \/ ep_strt
    \/ ep_wait
    \/ ep_eop_wait
    \/ ep_eop_ack
    \/ ep_clear
    \/ \E s \in UnitArgs, b \in Banks : erase_sector(s, b)
    \/ es_select
    \/ es_strt
    \/ es_wait
    \/ \E b \in Banks : erase_bank(b)
    \/ eb_mer
    \/ eb_strt
    \/ eb_qw
    \/ eb_wait
    \/ eb_clear
    \/ \E p \in DataIdx, d \in Data : write_page(p, d)
    \/ wp_pg
    \/ wp_lo
    \/ wp_hi
    \/ wp_wait
    \/ wp_eop
    \/ wp_eop_ack
    \/ wp_pg_clear
    \/ \E p \in ReadIdx, off \in ReadOffsets : read(p, off)
    \/ \E p \in ReadIdx, off \in ReadOffsets, n \in BufferLens :
          read_to_buffer(p, off, n)
    \/ \E b \in Banks : HwFinish(b)
    \/ HwRefuse

Spec == Init /\ [][Next]_vars

\* A call, once entered, keeps executing: the next statement of the running
\* method.
DriverStep ==
    \/ unlock_check \/ unlock_key1 \/ unlock_key2 \/ unlock_verify
    \/ lock_wait \/ lock_set
    \/ bsy_check \/ cef_read \/ cef_clear
    \/ ep_select \/ ep_ar \/ ep_strt \/ ep_wait \/ ep_eop_wait \/ ep_eop_ack
    \/ ep_clear
    \/ es_select \/ es_strt \/ es_wait
    \/ eb_mer \/ eb_strt \/ eb_qw \/ eb_wait \/ eb_clear
    \/ wp_pg \/ wp_lo \/ wp_hi \/ wp_wait \/ wp_eop \/ wp_eop_ack \/ wp_pg_clear

\* The controller ends the operation a bank is busy with, one way or the
\* other.
HwStep(b) == HwFinish(b) \/ (b = "B1" /\ HwRefuse)

\* Spec with a CPU that keeps running the call it is in and a controller that
\* ends every operation it is busy with; callers are free never to call.
LiveSpec ==
    /\ Init
    /\ [][Next]_vars
    /\ WF_vars(DriverStep)
    /\ \A b \in Banks : WF_vars(HwStep(b))


\* ------------------------------------------------- the address translation
\* The translation functions on their own: a build translates one valid unit
\* and then a second one; `rt' keeps the first unit and its address.
ValidIndex == 0..((IF family = "h7" THEN NUM_SECTORS ELSE NUM_PAGES) - 1)

AddrInit ==
    /\ family \in {"l4", "h7"}
    /\ cr = [b \in Banks |-> ResetCr]
    /\ sr = [b \in Banks |-> [bsy |-> FALSE, flags |-> {}]]
    /\ keyst = "idle"
    /\ wbuf = <<>>
    /\ mem = [a \in TrackedAddrs(family) |-> 255]
    /\ op = "new"
    /\ pc = "idle"
    /\ page = 0
    /\ bank = "B1"
    /\ data = <<>>
    /\ offset = 0
    /\ i = 0
    /\ snap = {}
    /\ cefi = 0
    /\ stalled = FALSE
    /\ ret = "Ok"
    /\ rval = <<>>
    /\ log = <<>>
    /\ rt = NoHistory

Translated(o, u, b, a) ==
    /\ rt' = IF op = o
             THEN [st |-> "addr", page |-> page, bank |-> bank, data |-> rval]
             ELSE NoHistory
    /\ op' = o
    /\ page' = u
    /\ bank' = b
    /\ rval' = <<a>>
    /\ UNCHANGED <<family, hw, pc, data, offset, locals, stalled, ret, log>>

call_page_to_address(p) ==
    /\ family # "h7"
    /\ Translated("page_to_address", p, "B1", page_to_address(p))

call_sector_to_address(s, b) ==
    /\ family = "h7"
    /\ Translated("sector_to_address", s, b, sector_to_address(s, b))

AddrNext ==
    /\ rt.st = "none"
    /\ \/ \E p \in ValidIndex : call_page_to_address(p)
       \/ \E s \in ValidIndex, b \in Banks : call_sector_to_address(s, b)

AddrSpec == AddrInit /\ [][AddrNext]_vars


\* ------------------------------------------------------- a long write_page
\* write_page on its own, with slices as long as a page holds double words
\* and one longer: one call on page 0 of an l4 build, made on a controller
\* that is idle or not, locked or not, with or without the programming error
\* left asserted.
UnitSize(fam) == IF fam = "h7" THEN SECTOR_SIZE ELSE PAGE_SIZE
PageWords == PAGE_SIZE \div 8
LongData == { [k \in 1..n |-> <<0, 0, 0, 0, 0, 0, 0, 0>>] :
                 n \in {PageWords, PageWords + 1} }

LongWriteInit ==
    /\ Init
    /\ family = "l4"
    /\ sr["B1"].flags \subseteq {ProgErrFlag(family)}

LongWriteNext ==
    \/ op = "new" /\ \E d \in LongData : write_page(0, d)
    \/ unlock_check
    \/ unlock_key1
    \/ unlock_key2
    \/ unlock_verify
    \/ bsy_check
    \/ cef_read
    \/ cef_clear
    \/ wp_pg
    \/ wp_lo
    \/ wp_hi
    \/ wp_wait
    \/ wp_eop
    \/ wp_eop_ack
    \/ wp_pg_clear
    \/ lock_wait
    \/ lock_set
    \/ \E b \in Banks : HwFinish(b)

LongWriteSpec == LongWriteInit /\ [][LongWriteNext]_vars


\* ================================================================= claims
Mutating == {"erase_page", "erase_sector", "erase_bank", "write_page"}

\* The method o has just returned: log, ret and the arguments are its own.
Returned(o) == pc = "idle" /\ op = o
ReturnedFrom(S) == pc = "idle" /\ op \in S

\* Number of erase units of the bank a unit erase addresses.
UnitCount ==
    CASE family = "h7" -> NUM_SECTORS
      [] family = "f4" -> NUM_F4_SECTORS
      [] OTHER -> NUM_PAGES

\* The accesses of the running call that write a register or flash.
IsWrite(e) == e.k \in {"w", "m"}
IsKeyWrite(e) == e.reg = "keyr"
IsLockSet(e) == e.reg = "cr" /\ IsWrite(e) /\ DOMAIN e.what = {"lock"}

\* A write of an erase / program command field of FLASH_CR (or FLASH_AR).
CmdFields == {"ee", "me", "pg", "sel", "strt"}
IsCmdWrite(e) ==
    \/ e.reg = "ar"
    \/ e.reg = "cr" /\ IsWrite(e) /\ DOMAIN e.what \cap CmdFields # {}

\* The driver's first read of the status register of the bank it works on
\* found BSY set.
SrReads == { k \in DOMAIN log : log[k].reg = "sr" /\ log[k].k = "r" /\ log[k].bank = Regs }
BusyAtRequest ==
    /\ SrReads # {}
    /\ log[CHOOSE k \in SrReads : \A h \in SrReads : k <= h].bsy

\* C1: every mutating call returns with the lock bit of the control register
\* of the bank it worked on set, whatever the result and the starting state.
C1_LockSetOnReturn == ReturnedFrom(Mutating) => cr[Regs].lock

\* C2: a mutating call that finds the busy flag set returns Busy and has
\* written no register besides the key register and the re-lock (the original
\* statement of the claim, the re-lock of section 4.3 step 2 allowed).
C2_BusyRejected ==
    (ReturnedFrom(Mutating) /\ BusyAtRequest) =>
        /\ ret = "Busy"
        /\ \A k \in DOMAIN log :
              IsWrite(log[k]) => (IsKeyWrite(log[k]) \/ IsLockSet(log[k]))

\* C3: a unit erase with an index not below the unit count does not return Ok
\* and never writes the erase-enable bit or the unit-select field (the
\* original statement of the claim; Busy and Failure, which the call may
\* return before it looks at the index, are allowed).
C3_OutOfRangeRejected ==
    (ReturnedFrom({"erase_page", "erase_sector"}) /\ page >= UnitCount) =>
        /\ ret \in {"PageOutOfRange", "Busy", "Failure"}
        /\ \A k \in DOMAIN log :
              ~(log[k].reg = "ar")
              /\ ~(log[k].reg = "cr" /\ IsWrite(log[k])
                     /\ DOMAIN log[k].what \cap {"ee", "sel"} # {})

\* C4: after a unit was erased and then programmed with a slice of words,
\* read_to_buffer of 8 * len bytes at offset 0 of the unit returns the bytes
\* of the words, each word low half first (the original statement).
C4_RoundTrip ==
    (Returned("read_to_buffer") /\ rt.st = "written" /\ page = rt.page
        /\ offset = 0 /\ Len(rval) = 8 * Len(rt.data)) =>
        rval = Flatten(rt.data)

\* C5: when write_page got as far as programming and the controller raised
\* the programming-sequence error, write_page returns Err(Failure) (the
\* original statement).
C5_ProgramErrorSurfaced ==
    (Returned("write_page") /\ ret # "Busy"
        /\ ProgErrFlag(family) \in sr["B1"].flags) =>
        ret = "Failure"

\* C6: erase_bank(B2) on a dual-bank (h7) part that found bank 2 idle is not
\* held up by bank 1: it does not return Busy and it never waits for bank 1's
\* busy flag to clear (the original statement).
C6_Bank2NotBlockedByBank1 ==
    (family = "h7" /\ op = "erase_bank" /\ bank = "B2"
        /\ SrReads # {} /\ ~BusyAtRequest) =>
        /\ ret # "Busy"
        /\ ~(pc = "lock_wait" /\ sr["B1"].bsy)

\* C7: every write of an erase-enable, mass-erase, program-enable,
\* unit-select or start field goes to a control register whose lock bit is
\* clear when the write is issued (the original statement).
C7_CommandWritesUnlocked ==
    \A k \in DOMAIN log : IsCmdWrite(log[k]) => ~log[k].lock

\* The calls that run unlock(), once they are past its key writes.
PastKeys ==
    /\ op \in Mutating \cup {"unlock"}
    /\ pc \notin {"unlock_check", "unlock_key1", "unlock_key2"}
    /\ log # <<>>

KeyWrites == { k \in DOMAIN log : IsKeyWrite(log[k]) }

\* C8: unlock() that reads the lock bit clear writes nothing: as a public
\* call it returns Ok after that one read, and inside a mutating call the key
\* register is not written.
C8_UnlockIdempotent ==
    (PastKeys /\ ~log[1].lock) =>
        /\ KeyWrites = {}
        /\ (Returned("unlock") =>
              ret = "Ok" /\ Len(log) = 1 /\ ~IsWrite(log[1]) /\ ~cr["B1"].lock)

C8_Witness ==
    Returned("unlock") /\ Len(log) = 1 /\ ~log[1].lock /\ ret = "Ok"

\* C9: unlock() that reads the lock bit set writes the key register exactly
\* twice, 0x45670123 then 0xCDEF89AB, as its second and third access, so with
\* no access in between.
C9_KeySequence ==
    (PastKeys /\ log[1].lock) =>
        /\ KeyWrites = {2, 3}
        /\ log[2].k = "w" /\ log[2].what = Word(\h45, \h67, \h01, \h23)
        /\ log[3].k = "w" /\ log[3].what = Word(\hCD, \hEF, \h89, \hAB)

C9_Witness ==
    Returned("unlock") /\ log[1].lock /\ KeyWrites = {2, 3} /\ ret = "Ok"

\* C10: unlock() that wrote the keys reads the lock bit back as its next
\* access and returns Failure exactly when the lock bit is still set, Ok
\* exactly when it is clear.
C10_UnlockResult ==
    (Returned("unlock") /\ KeyWrites # {}) =>
        /\ Len(log) = 4
        /\ log[4].k = "r" /\ log[4].reg = "cr" /\ log[4].what = "lock"
        /\ (ret = "Failure" <=> cr["B1"].lock)
        /\ (ret = "Ok" <=> ~cr["B1"].lock)

C10_Witness ==
    Returned("unlock") /\ KeyWrites # {} /\ ret = "Failure" /\ cr["B1"].lock

\* The accesses of the running call that write flash.
IsMemWrite(e) == e.reg = "mem" /\ IsWrite(e)

\* unlock(), run inside a mutating call, wrote the keys and read the lock bit
\* back set.
UnlockFailed ==
    /\ op \in Mutating
    /\ Len(log) >= 4
    /\ log[4].reg = "cr" /\ log[4].k = "r" /\ log[4].lock

\* C11: a mutating call whose unlock() fails returns Failure at once: the
\* read that found the lock bit still set is its last access, so nothing is
\* written to a status register, a control register or flash after it, and
\* before it only the key register was written.
C11_UnlockFailurePropagated ==
    UnlockFailed =>
        /\ pc = "idle"
        /\ ret = "Failure"
        /\ Len(log) = 4
        /\ \A k \in DOMAIN log : IsWrite(log[k]) => IsKeyWrite(log[k])
        /\ cr["B1"].lock

C11_Witness ==
    /\ ReturnedFrom(Mutating) /\ UnlockFailed /\ ret = "Failure"
    /\ cr["B1"].lock /\ sr["B1"].flags # {}

\* C12: every write that sets the lock bit comes right after a read of the
\* status register of the same bank that found BSY clear, and BSY is still
\* clear when the write is issued; when lock() has made that write the call
\* is over with the lock bit set, whatever error flags the status register
\* holds.
C12_LockAfterBusyClear ==
    \A k \in DOMAIN log :
        IsLockSet(log[k]) =>
            /\ k > 1
            /\ log[k - 1].k = "r" /\ log[k - 1].reg = "sr"
            /\ log[k - 1].what = "bsy" /\ log[k - 1].bank = log[k].bank
            /\ ~log[k - 1].bsy
            /\ ~log[k].bsy
            /\ k = Len(log)
            /\ pc = "idle"
            /\ cr["B1"].lock

C12_Witness ==
    /\ Returned("lock")
    /\ Len(log) = 2 /\ IsLockSet(log[2]) /\ ~log[2].lock
    /\ cr["B1"].lock
    /\ sr["B1"].flags \cap HwErrFlags(family) # {}

\* C13: two different valid (bank, index) pairs translate to different
\* addresses, and within a bank a smaller index translates to a smaller
\* address.  (Checked under AddrSpec.)
C13_AddressInjective ==
    rt.st = "addr" =>
        /\ (<<rt.bank, rt.page>> # <<bank, page>> => rt.data[1] # rval[1])
        /\ ((rt.bank = bank /\ rt.page < page) => rt.data[1] < rval[1])

C13_Witness ==
    /\ family = "h7" /\ rt.st = "addr"
    /\ rt.bank = "B1" /\ rt.page = NUM_SECTORS - 1
    /\ bank = "B2" /\ page = 0
    /\ rt.data[1] < rval[1]

\* A step that is a call of read or read_to_buffer.
ReadStep == pc = "idle" /\ op' \in {"read", "read_to_buffer"} /\ log' # log

\* C14: a call of read or read_to_buffer is made whatever the lock bit and
\* the busy flag are, returns, writes no register, and leaves the control
\* registers, the status registers, the key logic and flash as they were.
C14_ReadsBypassGate ==
    [][ReadStep =>
          /\ hw' = hw
          /\ pc' = "idle"
          /\ ret' = "Ok"
          /\ \A k \in DOMAIN log' : ~IsWrite(log'[k])]_vars

C14_Witness ==
    /\ Returned("read_to_buffer") /\ ret = "Ok" /\ Len(log) = 1
    /\ sr["B1"].bsy /\ ~cr["B1"].lock

\* C15: read(page, offset) returns the 8 bytes stored from address
\* base + offset on, and read_to_buffer(page, offset, buff) returns in
\* buff[i] the byte stored at base + offset + i, base being the address of
\* the unit, a valid one (the original statement).
C15_DirectRead ==
    /\ (Returned("read") /\ page < UnitCount) =>
          rval = MemBytes(mem, UnitBase(family, page) + offset, 8)
    /\ (Returned("read_to_buffer") /\ page < UnitCount) =>
          rval = MemBytes(mem, UnitBase(family, page) + offset, Len(rval))

\* A write that sets the mass-erase-select bit, and one that sets the start
\* bit.
IsMassEraseSet(e) ==
    e.reg = "cr" /\ IsWrite(e) /\ "me" \in DOMAIN e.what /\ e.what.me

IsStartWrite(e) == e.reg = "cr" /\ IsWrite(e) /\ "strt" \in DOMAIN e.what

\* C16: erase_bank(bank) sets the mass-erase-select bit of the bank named by
\* its argument and of no other, and that bit is clear in both banks when the
\* call has returned Ok (the original statement).
C16_OneBankErased ==
    op = "erase_bank" =>
        /\ \A k \in DOMAIN log : IsMassEraseSet(log[k]) => log[k].bank = bank
        /\ (pc = "idle" /\ ret = "Ok") => \A b \in Banks : ~cr[b].me

\* C17: a mutating call whose result is Busy has written no erase-enable,
\* mass-erase, unit-select, program-enable or start field and no flash word,
\* and has not written a status register either.
C17_BusyNothingAttempted ==
    (op \in Mutating /\ ret = "Busy") =>
        /\ \A k \in DOMAIN log :
              /\ ~IsCmdWrite(log[k])
              /\ ~IsMemWrite(log[k])
              /\ ~(log[k].reg \in {"sr", "ccr"} /\ IsWrite(log[k]))
        /\ wbuf = <<>>

C17_Witness ==
    /\ ReturnedFrom(Mutating) /\ ret = "Busy"
    /\ cr["B1"].lock
    /\ \E k \in DOMAIN log : IsKeyWrite(log[k])

EraseOps == {"erase_page", "erase_sector", "erase_bank"}

\* C18: an erase never writes the start bit while the busy flag of the bank it
\* works on is set, and an erase requested while that bank is busy writes no
\* start bit at all and returns Busy (the original statement).
C18_NoStartWhileBusy ==
    op \in EraseOps =>
        /\ \A k \in DOMAIN log : IsStartWrite(log[k]) => ~log[k].bsy
        /\ BusyAtRequest =>
              /\ \A k \in DOMAIN log : ~IsStartWrite(log[k])
              /\ pc = "idle" => ret = "Busy"

\* The read that opens clear_error_flags, and a write that clears flags.
IsCefRead(e) == e.k = "r" /\ e.reg = "sr" /\ e.what = "all"
IsFlagWrite(e) == e.reg \in {"sr", "ccr"} /\ IsWrite(e)

\* C19: in a mutating call every write of a command field comes after
\* clear_error_flags, which comes after a read of the status register that
\* found the busy flag clear: before the command write the call has read BSY
\* clear, then taken the snapshot of the flags, then written the clear bit
\* of every tested flag the snapshot holds (the original statement).
C19_ClearBeforeCommand ==
    op \in Mutating =>
        \A k \in DOMAIN log :
            IsCmdWrite(log[k]) =>
                \E j \in 1..(k - 1) :
                    /\ IsCefRead(log[j])
                    /\ \E h \in 1..(j - 1) :
                          /\ log[h].k = "r" /\ log[h].reg = "sr"
                          /\ log[h].what = "bsy" /\ log[h].bank = log[j].bank
                          /\ ~log[h].bsy
                    /\ \A f \in snap \cap Range(ErrFlagSeq(family)) :
                          \E m \in (j + 1)..(k - 1) :
                              IsFlagWrite(log[m]) /\ f \in log[m].what

\* clear_error_flags has just returned to the running method.
CefReturned ==
    /\ op \in Mutating
    /\ pc \in {"ep_select", "es_select", "eb_mer", "wp_pg"}
    /\ ~stalled

\* C20: when clear_error_flags returns it has read the status register once,
\* has written the clear bit of every error flag of the controller that the
\* snapshot held, and none of those flags is still asserted (the original
\* statement).
C20_AllErrorFlagsCleared ==
    CefReturned =>
        /\ Cardinality({ k \in DOMAIN log : IsCefRead(log[k]) }) = 1
        /\ \A f \in snap \cap HwErrFlags(family) :
              /\ \E k \in DOMAIN log : IsFlagWrite(log[k]) /\ f \in log[k].what
              /\ f \notin sr[Regs].flags

\* clear_error_flags of the running call found these tested flags asserted.
FlagsFound == snap \cap Range(ErrFlagSeq(family))

\* C21: a mutating call that got as far as clear_error_flags and found error
\* flags asserted proceeds and returns Ok: the snapshot never changes the
\* result, the call goes on to its command writes, and every flag
\* clear_error_flags found has had its clear bit written.
C21_StaleFlagNotFatal ==
    (op \in Mutating /\ snap \cap HwErrFlags(family) # {}) =>
        /\ ret = "Ok"
        /\ \E j \in DOMAIN log : IsCefRead(log[j])
        /\ pc = "idle" =>
              /\ \E k \in DOMAIN log : IsCmdWrite(log[k])
              /\ \A f \in FlagsFound :
                    \E k \in DOMAIN log : IsFlagWrite(log[k]) /\ f \in log[k].what

C21_Witness ==
    /\ Returned("erase_page") /\ ret = "Ok"
    /\ FlagsFound # {}
    /\ FlagsFound \cap sr["B1"].flags = {}
    /\ \E k \in DOMAIN log : IsStartWrite(log[k]) /\ ~log[k].lock
    /\ UnitErased(page)

UnitErases == {"erase_page", "erase_sector"}

\* A write of the erase-enable bit with the unit (on f3 the unit goes to
\* FLASH_AR in a write of its own, right after).
IsSelectWrite(e) ==
    /\ e.reg = "cr" /\ IsWrite(e)
    /\ "ee" \in DOMAIN e.what /\ e.what.ee
    /\ "strt" \notin DOMAIN e.what

SelectsUnit(l, j) ==
    IF family = "f3"
    THEN j + 1 \in DOMAIN l /\ l[j + 1].reg = "ar" /\ l[j + 1].what = page
    ELSE "sel" \in DOMAIN l[j].what

\* C22: in a unit erase the start bit is written by a control-register write
\* that writes nothing else and comes after the write of the erase-enable
\* bit and of the unit; and the start bit is never set in a control register
\* whose erase-enable bit is clear.
C22_SelectBeforeStart ==
    op \in UnitErases =>
        /\ \A k \in DOMAIN log :
              IsStartWrite(log[k]) =>
                  /\ DOMAIN log[k].what = {"strt"}
                  /\ \E j \in 1..(k - 1) :
                        /\ IsSelectWrite(log[j])
                        /\ log[j].bank = log[k].bank
                        /\ SelectsUnit(log, j)
                        /\ (family = "f3" => j + 1 < k)
        /\ cr[Regs].strt => cr[Regs].ee

C22_Witness ==
    /\ ReturnedFrom(UnitErases) /\ ret = "Ok"
    /\ \E k \in DOMAIN log : IsStartWrite(log[k]) /\ ~log[k].lock
    /\ UnitErased(page)

\* C23: while a unit erase of a valid unit is under way (the start bit is
\* set) the unit-select field of the control register holds the index the
\* caller passed (the original statement).
C23_SelectIsIndex ==
    (op \in UnitErases /\ cr[Regs].strt /\ page < UnitCount) =>
        cr[Regs].sel = page

\* C24: when a unit erase has returned Ok the erase-enable bit is clear in
\* the control register it used (the original statement).
C24_EraseEnableCleared ==
    (ReturnedFrom(UnitErases) /\ ret = "Ok") => ~cr[Regs].ee

\* The flash writes of the running call, in order.
MemWrites == SelectSeq(log, IsMemWrite)

\* C25: in write_page the program-enable bit is set when the loop is entered
\* and throughout every iteration of it, is cleared by the control-register
\* write that follows the last pair, and is clear when write_page has
\* returned Ok.
C25_ProgramEnableBracket ==
    op = "write_page" =>
        /\ pc \in {"wp_lo", "wp_hi", "wp_wait", "wp_eop", "wp_eop_ack",
                   "wp_pg_clear"} => cr["B1"].pg
        /\ MemWrites # <<>> =>
              \E j \in DOMAIN log :
                  /\ log[j].reg = "cr" /\ IsWrite(log[j])
                  /\ "pg" \in DOMAIN log[j].what /\ log[j].what.pg
                  /\ \A k \in DOMAIN log : IsMemWrite(log[k]) => j < k
        /\ (pc = "idle" /\ ret = "Ok") =>
              /\ ~cr["B1"].pg
              /\ \E j \in DOMAIN log :
                    /\ log[j].reg = "cr" /\ IsWrite(log[j])
                    /\ "pg" \in DOMAIN log[j].what /\ ~log[j].what.pg
                    /\ \A k \in DOMAIN log : IsMemWrite(log[k]) => k < j

C25_Witness ==
    /\ Returned("write_page") /\ ret = "Ok"
    /\ Len(data) = MaxData
    /\ Len(MemWrites) = 2 * MaxData
    /\ ~cr["B1"].pg

\* The 32-bit writes write_page is to make for the slice d into the unit at
\* address base: low half of d[k] at base + 8(k-1), then high half 4 above.
PairWrites(d, base) ==
    [n \in 1..(2 * Len(d)) |->
        [addr |-> base + 4 * (n - 1),
         word |-> IF n % 2 = 1 THEN SubSeq(d[(n + 1) \div 2], 1, 4)
                  ELSE SubSeq(d[n \div 2], 5, 8)]]

\* C26: the flash writes write_page has made so far are the first of the
\* writes low half at base + 8k, high half at base + 8k + 4, for k = 0, 1, ..
\* in order, and when it has returned Ok they are all 2 * len(data) of them.
C26_PairLayout ==
    op = "write_page" =>
        LET w == MemWrites
            e == PairWrites(data, UnitBase(family, page))
        IN /\ Len(w) <= Len(e)
           /\ \A n \in DOMAIN w : w[n].what = e[n]
           /\ (pc = "idle" /\ ret = "Ok") => Len(w) = Len(e)

C26_Witness ==
    /\ Returned("write_page") /\ ret = "Ok"
    /\ Len(data) = MaxData /\ data[1] = ProgramWord
    /\ Len(MemWrites) = 2 * MaxData
    /\ MemWrites[2 * MaxData].what.addr = UnitBase(family, page) + 8 * MaxData - 4

\* Positions in the log of the flash writes.
MemWriteAt == { k \in DOMAIN log : IsMemWrite(log[k]) }

\* C27: in write_page every first word of a pair but the very first is
\* written after a read of the status register, made after the previous
\* pair's second word, that found BSY clear; and no word is written while
\* BSY is set.
C27_NotPipelined ==
    op = "write_page" =>
        \A k \in MemWriteAt :
            /\ ~log[k].bsy
            /\ (log[k].what.addr % 8 = 0 /\ \E h \in MemWriteAt : h < k) =>
                  \E j \in 1..(k - 1) :
                      /\ log[j].k = "r" /\ log[j].reg = "sr"
                      /\ log[j].what = "bsy" /\ ~log[j].bsy
                      /\ \A h \in MemWriteAt : h < k => h < j

C27_Witness ==
    /\ Returned("write_page") /\ ret = "Ok"
    /\ Len(MemWrites) = 4
    /\ \E j \in DOMAIN log :
          /\ log[j].k = "r" /\ log[j].reg = "sr" /\ log[j].what = "bsy"
          /\ \E h \in MemWriteAt : h < j
          /\ \E k \in MemWriteAt : j < k

\* C28: when write_page, having written at least one pair, or erase_page on
\* f3 / f4 has returned Ok, the operation-complete flag is clear (the
\* original statement).
C28_EopAcknowledged ==
    (\/ Returned("write_page") /\ ret = "Ok" /\ data # <<>>
     \/ Returned("erase_page") /\ ret = "Ok" /\ family \in {"f3", "f4"}) =>
        "eop" \notin sr["B1"].flags

\* C29: every call of lock, erase_page, erase_sector, erase_bank and
\* write_page that has been entered returns, given a controller that ends
\* every operation it is busy with (the original statement; checked under
\* LiveSpec).
C29_CallsReturn ==
    (pc # "idle" /\ op \in Mutating \cup {"lock"}) ~> (pc = "idle")

\* C30: write_page, read and read_to_buffer translate a unit index to an
\* address, and access flash at it, only when the index is below the unit
\* count (the original statement).
C30_IndexValidated ==
    (op \in {"write_page", "read", "read_to_buffer"}
        /\ \E k \in DOMAIN log : log[k].reg = "mem") =>
        page < UnitCount

\* The driver's acknowledge of EOP: the statement after the test of EOP that
\* found it set.
EopAckStep == pc \in {"ep_eop_ack", "wp_eop_ack"} /\ pc' # pc

\* Error flags of bank b asserted now that clear_error_flags did not see:
\* those the controller raised since, during the erase or the programming.
RaisedInCall(b) == (sr[b].flags \cap HwErrFlags(family)) \ snap

\* C31: the acknowledge of the operation-complete flag clears no error flag
\* the controller raised during the erase or the programming: each is still
\* asserted after it (the original statement).
C31_AckKeepsErrorFlags ==
    [][EopAckStep =>
          \A b \in Banks : RaisedInCall(b) \subseteq sr'[b].flags]_vars

\* A statement of clear_error_flags: its read of the status register, or
\* one of its writes.
CefStep == pc \in {"cef_read", "cef_clear"} /\ log' # log

\* C32: a statement of clear_error_flags changes neither a control register
\* (the lock bit included), nor the key logic, nor flash, nor the busy flag,
\* and clears no status flag besides error flags its snapshot holds: the
\* operation-complete flag stays as it is (the original statement).
C32_ClearOnlyErrorFlags ==
    [][CefStep =>
          /\ cr' = cr /\ keyst' = keyst /\ wbuf' = wbuf /\ mem' = mem
          /\ \A b \in Banks :
                /\ sr'[b].bsy = sr[b].bsy
                /\ sr'[b].flags \subseteq sr[b].flags
                /\ (sr[b].flags \ sr'[b].flags) \subseteq
                      (snap' \cap HwErrFlags(family))]_vars

\* C33: in no reachable state does a control register hold the
\* program-enable bit together with an erase-enable bit (PER / SER, or
\* MER / BER) (the original statement).
C33_ProgramEraseExclusive ==
    \A b \in Banks : ~(cr[b].pg /\ (cr[b].ee \/ cr[b].me))

\* What flash holds at address a when the driver is created.
InitialByte(a) == ProgramWord[(a % 8) + 1]

\* C34: every flash word write_page(page, data) writes lies inside the unit
\* `page', from its base up to its size, and the bytes of every other unit
\* are what they were before the call (the original statement; checked under
\* LongWriteSpec, where the call is the first one made).
C34_WritesInsideUnit ==
    op = "write_page" =>
        /\ \A k \in MemWriteAt :
              /\ log[k].what.addr >= UnitBase(family, page)
              /\ log[k].what.addr + 4 <= UnitBase(family, page) + UnitSize(family)
        /\ \A a \in DOMAIN mem :
              UnitOfAddr(family, a) # page => mem[a] = InitialByte(a)

\* C35: when erase_page, erase_bank or write_page has returned Busy, the call
\* has read the busy flag of the bank it works on clear after reading it set,
\* and that flag is clear: the controller is not busy any more and a retry
\* made at once does not find it busy (the original statement).
C35_BusyReturnsIdle ==
    (ReturnedFrom({"erase_page", "erase_bank", "write_page"}) /\ ret = "Busy") =>
        /\ \E k \in DOMAIN log :
              /\ log[k].k = "r" /\ log[k].reg = "sr" /\ log[k].bank = Regs
              /\ log[k].what = "bsy" /\ ~log[k].bsy
        /\ ~sr[Regs].bsy

=============================================================================
